---- MODULE Spec2Model ----
(***************************************************************************)
(* Model of the risk-score normalisation and of the event / graph          *)
(* inference pipeline of Flask-Backend/main.py.                            *)
(*                                                                         *)
(* Python floats are modelled as fixed-point integers in units of 10^-6    *)
(* (the resolution normalize_risk rounds its result to); percentages are   *)
(* kept in units of 10^-4 percent so that ratios up to a few hundred fit   *)
(* a machine integer.  Python None is the value record NoneV for numbers   *)
(* and the string NoneS for text.                                          *)
(***************************************************************************)
EXTENDS Integers, Sequences, FiniteSets, TLC

(***************************************************************************)
(* Fixed-point arithmetic standing for float arithmetic.                   *)
(***************************************************************************)
Micro == 10^6
Kilo == 10^3
PctUnit == 10^4

\* floor(a*b / 10^6) for 0 <= a <= 2*10^6, 0 <= b, without overflow.
MulFix(a, b) ==
    a * (b \div Micro)
    + (a * ((b % Micro) \div Kilo) + (a * (b % Kilo)) \div Kilo) \div Kilo

\* floor(a * 10^6 / b) for 0 <= a, 0 < b <= 2*10^6, without overflow.
DivFix(a, b) ==
    LET r1 == (a % b) * Kilo
        r2 == (r1 % b) * Kilo
    IN  (a \div b) * Micro + (r1 \div b) * Kilo + r2 \div b

\* Python's round(): round half to even, of n/d to an integer (d > 0).
RoundHalfEven(n, d) ==
    LET q == n \div d
        r == n % d
    IN  IF 2 * r < d THEN q
        ELSE IF 2 * r > d THEN q + 1
        ELSE IF q % 2 = 0 THEN q ELSE q + 1

AtanhTerms == 8
ExpTerms == 14

\* sum_{i>=j} w^(i-j) / (2i+1), Horner form; w = u^2.
RECURSIVE AtanhTail(_, _)
AtanhTail(w, j) ==
    IF j >= AtanhTerms THEN 0
    ELSE Micro \div (2 * j + 1) + MulFix(w, AtanhTail(w, j + 1))

\* atanh(u) for 0 <= u <= 1/2.
Atanh(u) == MulFix(u, AtanhTail(MulFix(u, u), 0))

Ln2 == 2 * Atanh(Micro \div 3)

\* The mantissa in (1/2, 1] and the binary exponent of t, 0 < t.
RECURSIVE Frexp(_, _)
Frexp(t, n) ==
    IF t > Micro THEN Frexp(t \div 2, n + 1)
    ELSE IF 2 * t <= Micro THEN Frexp(2 * t, n - 1)
    ELSE <<t, n>>

\* math.log(t), t > 0.
Ln(t) ==
    LET fe == Frexp(t, 0)
        m == fe[1]
    IN  fe[2] * Ln2 - 2 * Atanh(DivFix(Micro - m, Micro + m))

\* e^(-f) for 0 <= f < ln 2: 1 - f(1 - f/2 (1 - f/3 (...))).
RECURSIVE ExpSeries(_, _)
ExpSeries(f, i) ==
    IF i > ExpTerms THEN Micro
    ELSE Micro - MulFix(ExpSeries(f, i + 1), f) \div i

RECURSIVE Halve(_, _)
Halve(v, n) == IF n = 0 \/ v = 0 THEN v ELSE Halve(v \div 2, n - 1)

\* math.exp(-y) for y >= 0.
ExpNeg(y) == Halve(ExpSeries(y % Ln2, 1), y \div Ln2)

\* b ** e for 0 <= b <= 1 and an exponent 0 < e <= 1 (0.0 ** e is 0.0).
Pow(b, e) == IF b = 0 THEN 0 ELSE ExpNeg(MulFix(e, -Ln(b)))

\* floor(a*b / c) for a, b >= 0 and c > 0, without overflow while a*c fits.
MulDiv(a, b, c) == a * (b \div c) + (a * (b % c)) \div c

Max2(a, b) == IF a >= b THEN a ELSE b
Min2(a, b) == IF a <= b THEN a ELSE b

(***************************************************************************)
(* Python values.  A number carries its value v in units of 10^-6; a       *)
(* string is the sequence of its characters; "obj" is any other object     *)
(* (a list, a dict) that float() rejects.                                  *)
(***************************************************************************)
NoneV == [t |-> "none"]
IntV(n) == [t |-> "int", v |-> n * Micro]
FloatV(v) == [t |-> "float", v |-> v]
DecimalV(v) == [t |-> "decimal", v |-> v]
StrV(s) == [t |-> "str", s |-> s]
ObjV == [t |-> "obj"]

Digits == <<"0", "1", "2", "3", "4", "5", "6", "7", "8", "9">>
IsDigit(c) == \E i \in 1..10 : Digits[i] = c
DigitVal(c) == (CHOOSE i \in 1..10 : Digits[i] = c) - 1
IsSpace(c) == c = " "

\* str.strip(): leading and trailing whitespace removed.
RECURSIVE LStrip(_)
LStrip(s) == IF s # <<>> /\ IsSpace(Head(s)) THEN LStrip(Tail(s)) ELSE s
RECURSIVE RStrip(_)
RStrip(s) ==
    IF s # <<>> /\ IsSpace(s[Len(s)]) THEN RStrip(SubSeq(s, 1, Len(s) - 1)) ELSE s
Strip(s) == RStrip(LStrip(s))

\* str.replace(c, ""): every occurrence of the character removed.
RemoveChar(s, c) == SelectSeq(s, LAMBDA ch : ch # c)

RECURSIVE DigitsValue(_)
DigitsValue(s) ==
    IF s = <<>> THEN 0 ELSE DigitsValue(SubSeq(s, 1, Len(s) - 1)) * 10 + DigitVal(s[Len(s)])

\* The fraction digits d1 d2 ... as units of 10^-6 (further digits are below
\* the resolution kept).
RECURSIVE FracValue(_, _)
FracValue(s, unit) ==
    IF s = <<>> \/ unit = 0 THEN 0
    ELSE DigitVal(Head(s)) * unit + FracValue(Tail(s), unit \div 10)

\* float(str): [sign] digits [. digits] between optional whitespace; NoneV
\* stands for the ValueError.
ParseFloat(s) ==
    LET b == Strip(s)
        neg == b # <<>> /\ Head(b) = "-"
        u == IF b # <<>> /\ Head(b) \in {"-", "+"} THEN Tail(b) ELSE b
        dots == {i \in 1..Len(u) : u[i] = "."}
        p == IF dots = {} THEN Len(u) + 1 ELSE CHOOSE i \in dots : TRUE
        ip == SubSeq(u, 1, p - 1)
        fp == SubSeq(u, p + 1, Len(u))
        ok == /\ Cardinality(dots) <= 1
              /\ Len(ip) + Len(fp) >= 1
              /\ \A i \in 1..Len(ip) : IsDigit(ip[i])
              /\ \A i \in 1..Len(fp) : IsDigit(fp[i])
        mag == DigitsValue(ip) * Micro + FracValue(fp, Micro \div 10)
    IN  IF ok THEN FloatV(IF neg THEN -mag ELSE mag) ELSE NoneV

_to_float(x) ==
    IF x.t = "none" THEN NoneV
    ELSE IF x.t \in {"int", "float"} THEN FloatV(x.v)
    ELSE IF x.t = "decimal" THEN FloatV(x.v)
    ELSE IF x.t = "str" THEN ParseFloat(RemoveChar(Strip(x.s), "%"))
    ELSE NoneV

(***************************************************************************)
(* The piecewise curve.  pct and x are percentages in units of 10^-4       *)
(* percent; the score is on the 0-99 scale in units of 10^-6.              *)
(***************************************************************************)
Pct(p) == p * PctUnit

\* out for x <= 100.0
RegimeLow(x) == 55 * Pow(MulDiv(x, Micro, Pct(100)), 7 * (Micro \div 10))

\* The second regime starting at 50.
RegimeMidFrom50(x) ==
    50 * Micro + 25 * Pow(MulDiv(x - Pct(100), Micro, Pct(100)), 8 * (Micro \div 10))

\* out for 100.0 < x <= 200.0
RegimeMid(x) ==
    55 * Micro + 25 * Pow(MulDiv(x - Pct(100), Micro, Pct(100)), 8 * (Micro \div 10))

\* out for x > 200.0
RegimeHigh(x) ==
    LET k == Ln(100 * Micro) \div 1800
    IN  99 * Micro - 19 * ExpNeg(MulDiv(k, x - Pct(200), PctUnit))

\* The curve with the third regime starting below the second one's end.
_piecewise_with_drop(pct) ==
    LET x == Max2(pct, 0)
        k == Ln(100 * Micro) \div 1800
        out == IF x <= Pct(100)
               THEN 55 * Pow(MulDiv(x, Micro, Pct(100)), 7 * (Micro \div 10))
               ELSE IF x <= Pct(200)
               THEN 55 * Micro
                    + 25 * Pow(MulDiv(x - Pct(100), Micro, Pct(100)), 8 * (Micro \div 10))
               ELSE 99 * Micro - 29 * ExpNeg(MulDiv(k, x - Pct(200), PctUnit))
    IN  Max2(0, Min2(out, 99 * Micro))

_piecewise_0_99_from_percent(pct) ==
    LET x == Max2(pct, 0)
        out == IF x <= Pct(100) THEN RegimeLow(x)
               ELSE IF x <= Pct(200) THEN RegimeMid(x)
               ELSE RegimeHigh(x)
    IN  Max2(0, Min2(out, 99 * Micro))

\* round(value, digits), the value given as n units of 10^-scaleDigits; the
\* result is in units of 10^-6.
Round(n, scaleDigits, digits) ==
    RoundHalfEven(n, 10^(scaleDigits - digits)) * 10^(6 - digits)

\* normalize_risk returning the 0-99 score, not divided by 100.
normalize_risk_undivided(score_ratio) ==
    LET r == _to_float(score_ratio)
    IN  IF r = NoneV THEN NoneV
        ELSE LET pct_in == MulDiv(r.v, Pct(100), Micro)
                 pct_out == _piecewise_0_99_from_percent(pct_in)
             IN  FloatV(Round(pct_out, 6, 6))

normalize_risk(score_ratio) ==
    LET r == _to_float(score_ratio)
    IN  IF r = NoneV THEN NoneV
        ELSE LET pct_in == MulDiv(r.v, Pct(100), Micro)
                 pct_out == _piecewise_0_99_from_percent(pct_in)
             IN  \* pct_out / 100.0 is pct_out units of 10^-8
                 FloatV(Round(pct_out, 8, 6))

(***************************************************************************)
(* Records (dict rows).  isdict is FALSE for a value that is no dict.      *)
(***************************************************************************)
DictRow(d) == [isdict |-> TRUE, d |-> d]
NotADict == [isdict |-> FALSE, d |-> <<>>]

\* dict.get(key): None when the key is absent.
Get(d, key) == IF key \in DOMAIN d THEN d[key] ELSE NoneV

\* d[key] = value
Put(d, key, value) == [f \in DOMAIN d \cup {key} |-> IF f = key THEN value ELSE d[f]]

\* The raw ratio read back from risk_score after it was overwritten.
_apply_raw_after_overwrite(row) ==
    IF ~row.isdict THEN row
    ELSE LET raw_ratio == _to_float(Get(row.d, "risk_score"))
         IN  IF raw_ratio = NoneV THEN row
             ELSE LET norm_ratio == normalize_risk(raw_ratio)
                      norm_0_99 == IF norm_ratio = NoneV THEN NoneV
                                   ELSE FloatV(Round(norm_ratio.v * 100, 6, 2))
                      d1 == Put(row.d, "risk_score", norm_ratio)
                      d2 == Put(d1, "risk_score_raw", d1["risk_score"])
                      d3 == Put(d2, "risk_score_norm_0_99", norm_0_99)
                      d4 == Put(d3, "risk_score_normalized", norm_ratio)
                  IN  DictRow(d4)

\* The four fields written whether or not a raw ratio is present.
_apply_without_guard(row) ==
    IF ~row.isdict THEN row
    ELSE LET raw_ratio == _to_float(Get(row.d, "risk_score"))
             norm_ratio == IF raw_ratio = NoneV THEN NoneV ELSE normalize_risk(raw_ratio)
             norm_0_99 == IF norm_ratio = NoneV THEN NoneV
                          ELSE FloatV(Round(norm_ratio.v * 100, 6, 2))
             d1 == Put(row.d, "risk_score_raw", raw_ratio)
             d2 == Put(d1, "risk_score_norm_0_99", norm_0_99)
             d3 == Put(d2, "risk_score", norm_ratio)
             d4 == Put(d3, "risk_score_normalized", norm_ratio)
         IN  DictRow(d4)

_apply_normalized_risk_inplace(row) ==
    IF ~row.isdict THEN row
    ELSE LET raw_ratio == _to_float(Get(row.d, "risk_score"))
         IN  IF raw_ratio = NoneV THEN row
             ELSE LET norm_ratio == normalize_risk(raw_ratio)
                      norm_0_99 == IF norm_ratio = NoneV THEN NoneV
                                   ELSE FloatV(Round(norm_ratio.v * 100, 6, 2))
                      d1 == Put(row.d, "risk_score_raw", raw_ratio)
                      d2 == Put(d1, "risk_score_norm_0_99", norm_0_99)
                      d3 == Put(d2, "risk_score", norm_ratio)
                      d4 == Put(d3, "risk_score_normalized", norm_ratio)
                  IN  DictRow(d4)

(***************************************************************************)
(* Text.  A sentence is the sequence of its tokens: words, numbers and the *)
(* punctuation marks , . ; ( ) each a token of its own.  In the text the   *)
(* tokens are separated by one space, except that no space precedes        *)
(* , . ; ) and none follows ( .  A Python None string is NoneS.            *)
(***************************************************************************)
NoneS == "<None>"

\* not s, for a string or None
Falsy(s) == s = NoneS \/ s = ""

Attached == {",", ".", ";", ")"}

RECURSIVE JoinFrom(_, _)
JoinFrom(toks, i) ==
    IF i > Len(toks) THEN ""
    ELSE (IF i = 1 \/ toks[i] \in Attached \/ toks[i - 1] = "(" THEN "" ELSE " ")
         \o toks[i] \o JoinFrom(toks, i + 1)

\* The text of a token sequence.
Text(toks) == JoinFrom(toks, 1)

\* str.lower() of a token, for the capitalised tokens of the vocabulary.
LowerCase ==
    [Sold |-> "sold", Donated |-> "donated", Purchased |-> "purchased",
     Bought |-> "bought", Exhibited |-> "exhibited", Resold |-> "resold",
     Painted |-> "painted", To |-> "to", By |-> "by", From |-> "from"]
Lower(tok) == IF tok \in DOMAIN LowerCase THEN LowerCase[tok] ELSE tok

\* The integer a token of digits denotes.
NumberOf ==
    ("1580" :> 1580) @@ ("1920" :> 1920) @@ ("1938" :> 1938) @@ ("1950" :> 1950)
    @@ ("1965" :> 1965) @@ ("1970" :> 1970) @@ ("1980" :> 1980) @@ ("1990" :> 1990)
    @@ ("2150" :> 2150)

EVENT_VERBS ==
    << <<"sold", "SOLD">>, <<"purchased", "PURCHASED">>, <<"bought", "PURCHASED">>,
       <<"acquired", "ACQUIRED">>, <<"donated", "DONATED">>, <<"gifted", "DONATED">>,
       <<"bequeathed", "BEQUEATHED">>, <<"consigned", "CONSIGNED">>,
       <<"exhibited", "EXHIBITED">>, <<"exported", "EXPORTED">>,
       <<"imported", "IMPORTED">> >>

\* The verbs a lower-case word holds as a proper substring.
VerbsInside == [resold |-> {"sold"}, unsold |-> {"sold"}]

\* v in low, for a verb v: some word of the text holds v as a substring.
VerbInText(v, toks) ==
    \E i \in 1..Len(toks) :
        LET w == Lower(toks[i])
        IN  w = v \/ (w \in DOMAIN VerbsInside /\ v \in VerbsInside[w])

\* YEAR_RE: a word of four digits, 1600 to 2099.
YEAR_RE(tok) == tok \in DOMAIN NumberOf /\ NumberOf[tok] >= 1600 /\ NumberOf[tok] <= 2099

\* str.strip(chars) on tokens: the leading and trailing tokens in chars removed.
RECURSIVE StripToks(_, _)
StripToks(toks, chars) ==
    IF toks = <<>> THEN toks
    ELSE IF Head(toks) \in chars THEN StripToks(Tail(toks), chars)
    ELSE IF toks[Len(toks)] \in chars THEN StripToks(SubSeq(toks, 1, Len(toks) - 1), chars)
    ELSE toks

\* _clean on a token sequence (None is <<>>): the text, or None when nothing is left.
_clean(toks) ==
    LET t == StripToks(toks, {",", ".", ";", ":", "-"})
    IN  IF t = <<>> THEN NoneS ELSE Text(t)

PatternVerbs ==
    {"sold", "purchased", "bought", "acquired", "donated", "gifted", "bequeathed", "consigned"}

\* \b(verb)\s+(to|by|from)\s+(.*)$ at token i: the fragment starts at token i + 2.
MatchAt(toks, i) ==
    /\ i + 2 <= Len(toks)
    /\ Lower(toks[i]) \in PatternVerbs
    /\ Lower(toks[i + 1]) \in {"to", "by", "from"}
    /\ toks[i + 2] \notin Attached

\* \bsold\s+to\s+([^,.;]+) at token i.
FallbackAt(toks, i) ==
    /\ i + 2 <= Len(toks)
    /\ Lower(toks[i]) = "sold"
    /\ Lower(toks[i + 1]) = "to"
    /\ toks[i + 2] \notin Attached

Least(S) == CHOOSE i \in S : \A j \in S : i <= j

\* The words of the vocabulary that end in "by", and what is left of each
\* without these two letters.
ByStem == [Derby |-> "Der", Sotheby |-> "Sothe", Whitby |-> "Whit"]

\* (,\s*)?(by\s*)?\bYEAR\b.*$ removed from the fragment: the cut starts at the
\* first year, or at a "by" and a comma right before it.  No word boundary
\* precedes "by" in the pattern: the last two letters of a word that ends in
\* "by" and stands right before the year are cut as well.
TrimYear(frag) ==
    LET ys == {j \in 1..Len(frag) : YEAR_RE(frag[j])}
    IN  IF ys = {} THEN frag
        ELSE LET j == Least(ys)
                 b == IF j > 1 /\ Lower(frag[j - 1]) = "by" THEN j - 1 ELSE j
                 c == IF b > 1 /\ frag[b - 1] = "," THEN b - 1 ELSE b
             IN  IF j > 1 /\ frag[j - 1] \in DOMAIN ByStem
                 THEN Append(SubSeq(frag, 1, j - 2), ByStem[frag[j - 1]])
                 ELSE SubSeq(frag, 1, c - 1)

\* ,(?![^()]*\)) : the comma at i splits unless the next parenthesis after it closes.
SplitsAt(frag, i) ==
    /\ frag[i] = ","
    /\ LET ps == {j \in (i + 1)..Len(frag) : frag[j] \in {"(", ")"}}
       IN  ps = {} \/ frag[Least(ps)] # ")"

\* re.split on the top-level commas, the empty pieces dropped.
RECURSIVE SplitParts(_, _, _)
SplitParts(frag, i, cur) ==
    IF i > Len(frag) THEN (IF cur = <<>> THEN <<>> ELSE <<cur>>)
    ELSE IF SplitsAt(frag, i)
    THEN (IF cur = <<>> THEN <<>> ELSE <<cur>>) \o SplitParts(frag, i + 1, <<>>)
    ELSE SplitParts(frag, i + 1, Append(cur, frag[i]))

\* ", ".join(parts[1:])
RECURSIVE JoinParts(_, _)
JoinParts(parts, i) ==
    IF i > Len(parts) THEN <<>>
    ELSE (IF i > 2 THEN <<",">> ELSE <<>>) \o parts[i] \o JoinParts(parts, i + 1)

\* A date string "YYYY-MM-DD", held as the number YYYYMMDD.
IsoStr(ymd) == [t |-> "iso", ymd |-> ymd]

\* The first verb of EVENT_VERBS, in the table's order, that the text holds.
FindVerb(toks) ==
    LET hits == {k \in 1..Len(EVENT_VERBS) : VerbInText(EVENT_VERBS[k][1], toks)}
    IN  IF hits = {} THEN NoneS ELSE EVENT_VERBS[Least(hits)][2]

NoEvent == [none |-> TRUE]

_infer_from_sentence(txt) ==
    IF txt = <<>> THEN NoEvent
    ELSE LET verb == FindVerb(txt)
             years == SelectSeq(txt, YEAR_RE)
             year == IF years # <<>> THEN years[Len(years)] ELSE NoneS
             ms == {i \in 1..Len(txt) : MatchAt(txt, i)}
             frag == IF ms = {} THEN <<>>
                     ELSE StripToks(TrimYear(SubSeq(txt, Least(ms) + 2, Len(txt))),
                                    {",", ".", ";"})
             parts == SplitParts(frag, 1, <<>>)
             actor1 == IF parts # <<>> THEN parts[1] ELSE <<>>
             place == IF Len(parts) > 1 THEN JoinParts(parts, 2) ELSE <<>>
             m2s == {i \in 1..Len(txt) : FallbackAt(txt, i)}
             actor == IF actor1 # <<>> \/ m2s = {} THEN actor1
                      ELSE LET from == Least(m2s) + 2
                               stops == {j \in from..Len(txt) : txt[j] \in {",", ".", ";"}}
                               upto == IF stops = {} THEN Len(txt) ELSE Least(stops) - 1
                           IN  SubSeq(txt, from, upto)
         IN  IF verb = NoneS THEN NoEvent
             ELSE [event_type |-> verb,
                   date_from |-> IF year # NoneS THEN IsoStr(NumberOf[year] * 10000 + 101)
                                 ELSE NoneV,
                   date_to |-> NoneV,
                   place |-> _clean(place),
                   actor |-> _clean(actor),
                   method |-> NoneS,
                   source_ref |-> "inferred:sentence"]

(***************************************************************************)
(* Dates.  A stored date_from / date_to is None, a date, a datetime or a   *)
(* string; to_iso gives the string "YYYY-MM-DD" (IsoStr) or None.  ISO     *)
(* strings of equal length compare as their numbers YYYYMMDD do.           *)
(***************************************************************************)
DateV(ymd) == [t |-> "date", ymd |-> ymd]
DateTimeV(ymd, hms) == [t |-> "datetime", ymd |-> ymd, hms |-> hms]
\* A string "YYYY-MM-DD hh:mm:ss".
LongStr(ymd, hms) == [t |-> "longstr", ymd |-> ymd, hms |-> hms]
EmptyStr == [t |-> "emptystr"]

to_iso(d) ==
    IF d.t = "none" THEN NoneV
    ELSE IF d.t \in {"date", "datetime"} THEN IsoStr(d.ymd)
    ELSE IF d.t \in {"iso", "longstr"} THEN IsoStr(d.ymd)
    ELSE NoneV

POLICY_WINDOWS ==
    << [code |-> "NAZI_ERA", from |-> IsoStr(19330101), to |-> IsoStr(19451231)],
       [code |-> "UNESCO_1970", from |-> IsoStr(19701114), to |-> NoneV] >>

\* Both bounds exclusive.
RECURSIVE PolicyHitsExclusive(_, _)
PolicyHitsExclusive(d, i) ==
    IF i > Len(POLICY_WINDOWS) THEN <<>>
    ELSE LET w == POLICY_WINDOWS[i]
             start_ok == IF w.from # NoneV THEN d.ymd > w.from.ymd ELSE TRUE
             end_ok == IF w.to # NoneV THEN d.ymd < w.to.ymd ELSE TRUE
         IN  (IF start_ok /\ end_ok THEN <<w.code>> ELSE <<>>) \o PolicyHitsExclusive(d, i + 1)

RECURSIVE PolicyHitsFrom(_, _)
PolicyHitsFrom(d, i) ==
    IF i > Len(POLICY_WINDOWS) THEN <<>>
    ELSE LET w == POLICY_WINDOWS[i]
             start_ok == IF w.from # NoneV THEN d.ymd >= w.from.ymd ELSE TRUE
             end_ok == IF w.to # NoneV THEN d.ymd <= w.to.ymd ELSE TRUE
         IN  (IF start_ok /\ end_ok THEN <<w.code>> ELSE <<>>) \o PolicyHitsFrom(d, i + 1)

\* if not d: return []
_policy_hits_for_date(d) == IF d = NoneV \/ d = EmptyStr THEN <<>> ELSE PolicyHitsFrom(d, 1)

(***************************************************************************)
(* Events: dict rows whose text fields are strings or NoneS and whose date *)
(* fields are date values.                                                 *)
(***************************************************************************)
\* e.get(key) for a text field / for a date field
GetS(e, key) == IF key \in DOMAIN e THEN e[key] ELSE NoneS
GetD(e, key) == IF key \in DOMAIN e THEN e[key] ELSE NoneV

\* Every candidate kept, whatever it holds.
RetainedAny(ev) == ev # NoEvent

\* ev and (ev.get("actor") or ev.get("place"))
Retained(ev) == ev # NoEvent /\ (~Falsy(GetS(ev, "actor")) \/ ~Falsy(GetS(ev, "place")))

\* The candidates of the sentences from the i-th on, each tagged with its seq.
RECURSIVE Candidates(_, _)
Candidates(sentences, i) ==
    IF i > Len(sentences) THEN <<>>
    ELSE LET ev == _infer_from_sentence(sentences[i].sentence)
         IN  (IF Retained(ev)
              THEN << [f \in DOMAIN ev \cup {"seq"} |->
                          IF f = "seq" THEN sentences[i].seq ELSE ev[f]] >>
              ELSE <<>>)
             \o Candidates(sentences, i + 1)

InferKey(e) ==
    <<GetS(e, "actor"), GetS(e, "place"), GetS(e, "event_type"), GetD(e, "date_from")>>

\* The deduplication loop: the first event of each key is kept.
RECURSIVE Uniq(_, _, _)
Uniq(out, i, seen) ==
    IF i > Len(out) THEN <<>>
    ELSE IF InferKey(out[i]) \in seen THEN Uniq(out, i + 1, seen)
    ELSE <<out[i]>> \o Uniq(out, i + 1, seen \cup {InferKey(out[i])})

\* The last event of each key kept instead of the first.
DeduplicateKeepLast(out) ==
    LET keep == {i \in 1..Len(out) :
                    \A j \in (i + 1)..Len(out) : InferKey(out[j]) # InferKey(out[i])}
        F[i \in 0..Len(out)] ==
            IF i = 0 THEN <<>> ELSE IF i \in keep THEN Append(F[i - 1], out[i]) ELSE F[i - 1]
    IN  F[Len(out)]

Deduplicate(out) == Uniq(out, 1, {})

infer_events_from_sentences(sentences) == Deduplicate(Candidates(sentences, 1))

(***************************************************************************)
(* The merge of stored and inferred events in the graph route.             *)
(***************************************************************************)
MergeKey(e) ==
    <<GetS(e, "actor"), GetS(e, "place"), GetS(e, "event_type"), to_iso(GetD(e, "date_from"))>>

\* any() in place of all().
StoredIsThinAny(merged) ==
    merged = <<>>
    \/ \E i \in 1..Len(merged) :
           Falsy(GetS(merged[i], "actor")) /\ Falsy(GetS(merged[i], "place"))

\* not merged or all(not actor and not place)
StoredIsThin(merged) ==
    merged = <<>>
    \/ \A i \in 1..Len(merged) :
           Falsy(GetS(merged[i], "actor")) /\ Falsy(GetS(merged[i], "place"))

\* for e in inferred: if key not in have: merged.append(e)
RECURSIVE FillFrom(_, _, _, _)
FillFrom(merged, inferred_, i, have) ==
    IF i > Len(inferred_) THEN merged
    ELSE IF MergeKey(inferred_[i]) \notin have
    THEN FillFrom(Append(merged, inferred_[i]), inferred_, i + 1, have)
    ELSE FillFrom(merged, inferred_, i + 1, have)

MergeEvents(events_, inferred_) ==
    IF StoredIsThin(events_) THEN inferred_
    ELSE FillFrom(events_, inferred_, 1, {MergeKey(events_[i]) : i \in 1..Len(events_)})

\* The merge working on the stored list itself: what it appends is appended
\* to events.
MergeListsShared(events_, inferred_) ==
    LET m == MergeEvents(events_, inferred_)
    IN  [merged |-> m,
         events |-> IF StoredIsThin(events_) THEN events_ ELSE m,
         inferred |-> inferred_]

\* The three lists after the merge.  merged = list(events) is a list of its
\* own, so appending to it leaves events as it was; merged = inferred names the
\* inferred list, to which nothing is appended.
MergeLists(events_, inferred_) ==
    [merged |-> MergeEvents(events_, inferred_),
     events |-> events_,
     inferred |-> inferred_]

(***************************************************************************)
(* build_graph_from_events.  nodes is nodes_map, in insertion order.       *)
(***************************************************************************)
\* f"{value}" of a string or None
Fmt(s) == IF s = NoneS THEN "None" ELSE s

ObjectNode(obj_row) ==
    [id |-> "obj:" \o ToString(obj_row.object_id),
     label |-> (IF Falsy(obj_row.title) THEN "Untitled" ELSE obj_row.title)
               \o " (" \o Fmt(obj_row.source) \o ")",
     type |-> "object"]

NodeId(kind, label) == kind \o ":" \o label

HasNode(nodes, nid) == \E i \in 1..Len(nodes) : nodes[i].id = nid

\* A node appended at every mention.
add_node_always(nodes, kind, label) ==
    IF Falsy(label) THEN nodes
    ELSE Append(nodes, [id |-> NodeId(kind, label), label |-> label, type |-> kind])

\* add_node that enters actors only: a place gets its id but no node.
add_node_actors_only(nodes, kind, label) ==
    IF Falsy(label) \/ kind # "actor" THEN nodes
    ELSE IF ~HasNode(nodes, NodeId(kind, label))
    THEN Append(nodes, [id |-> NodeId(kind, label), label |-> label, type |-> kind])
    ELSE nodes

\* add_node: nodes_map after the call (the id returned is NodeId(kind, label)).
add_node(nodes, kind, label) ==
    IF Falsy(label) THEN nodes
    ELSE IF ~HasNode(nodes, NodeId(kind, label))
    THEN Append(nodes, [id |-> NodeId(kind, label), label |-> label, type |-> kind])
    ELSE nodes

\* The place edge appended only inside the actor branch.
EventEdgesPlaceUnderActor(ev, onode_id) ==
    LET actor == GetS(ev, "actor")
        place == GetS(ev, "place")
        etype == IF Falsy(GetS(ev, "event_type")) THEN "UNKNOWN" ELSE GetS(ev, "event_type")
        d_iso == to_iso(GetD(ev, "date_from"))
    IN  IF ~Falsy(actor)
        THEN << [source |-> NodeId("actor", actor), target |-> onode_id, label |-> etype,
                 date |-> d_iso, weight |-> Micro, source_ref |-> GetS(ev, "source_ref"),
                 policy |-> _policy_hits_for_date(d_iso)] >>
             \o (IF ~Falsy(place)
                 THEN << [source |-> onode_id, target |-> NodeId("place", place),
                          label |-> "LOCATED", date |-> d_iso, weight |-> Micro \div 2,
                          source_ref |-> GetS(ev, "source_ref"),
                          policy |-> _policy_hits_for_date(d_iso)] >>
                 ELSE <<>>)
        ELSE <<>>

\* The edges one event appends.
EventEdges(ev, onode_id) ==
    LET actor == GetS(ev, "actor")
        place == GetS(ev, "place")
        etype == IF Falsy(GetS(ev, "event_type")) THEN "UNKNOWN" ELSE GetS(ev, "event_type")
        d_iso == to_iso(GetD(ev, "date_from"))
    IN  (IF ~Falsy(actor)
         THEN << [source |-> NodeId("actor", actor), target |-> onode_id, label |-> etype,
                  date |-> d_iso, weight |-> Micro, source_ref |-> GetS(ev, "source_ref"),
                  policy |-> _policy_hits_for_date(d_iso)] >>
         ELSE <<>>)
        \o
        (IF ~Falsy(place)
         THEN << [source |-> onode_id, target |-> NodeId("place", place), label |-> "LOCATED",
                  date |-> d_iso, weight |-> Micro \div 2,
                  source_ref |-> GetS(ev, "source_ref"),
                  policy |-> _policy_hits_for_date(d_iso)] >>
         ELSE <<>>)

RECURSIVE GraphLoop(_, _, _, _, _)
GraphLoop(events_, i, onode_id, nodes, edges) ==
    IF i > Len(events_) THEN [nodes |-> nodes, edges |-> edges]
    ELSE LET ev == events_[i]
             n1 == add_node(nodes, "actor", GetS(ev, "actor"))
             n2 == add_node(n1, "place", GetS(ev, "place"))
         IN  GraphLoop(events_, i + 1, onode_id, n2, edges \o EventEdges(ev, onode_id))

build_graph_from_events(obj_row, events_) ==
    LET onode == ObjectNode(obj_row)
    IN  GraphLoop(events_, 1, onode.id, <<onode>>, <<>>)

(***************************************************************************)
(* build_timeline_from_events_and_sentences.                               *)
(***************************************************************************)
\* s_by_seq[k]: a later row of the same seq replaces an earlier one.
SentenceBySeq(sentences, k) ==
    LET rows == {i \in 1..Len(sentences) : sentences[i].seq = k}
    IN  sentences[CHOOSE i \in rows : \A j \in rows : j <= i].sentence

\* The text of the first sentence row, whatever its seq.
TimelineTextFirstRow(sentences) ==
    IF sentences = <<>> THEN "" ELSE Text(sentences[1].sentence)

\* txt or "": the sentence of the first k of (0, 1, 2, 3) that s_by_seq holds.
TimelineText(sentences) ==
    LET ks == {k \in 0..3 : \E i \in 1..Len(sentences) : sentences[i].seq = k}
    IN  IF ks = {} THEN "" ELSE Text(SentenceBySeq(sentences, Least(ks)))

build_timeline_from_events_and_sentences(events_, sentences) ==
    [i \in 1..Len(events_) |->
        [title |-> IF Falsy(GetS(events_[i], "event_type")) THEN "Event"
                   ELSE GetS(events_[i], "event_type"),
         start_date |-> to_iso(GetD(events_[i], "date_from")),
         end_date |-> to_iso(GetD(events_[i], "date_to")),
         text |-> TimelineText(sentences),
         source_ref |-> GetS(events_[i], "source_ref")]]

(***************************************************************************)
(* The chain-of-custody step of the graph route.                           *)
(***************************************************************************)
SentinelDate == IsoStr(10101)

\* [(to_iso(date_from) or "0001-01-01", actor) for e in merged if actor]
RECURSIVE ActorsInTime(_, _)
ActorsInTime(merged, i) ==
    IF i > Len(merged) THEN <<>>
    ELSE (IF ~Falsy(GetS(merged[i], "actor"))
          THEN LET d == to_iso(GetD(merged[i], "date_from"))
               IN  << [date |-> IF d = NoneV THEN SentinelDate ELSE d,
                       actor |-> GetS(merged[i], "actor")] >>
          ELSE <<>>)
         \o ActorsInTime(merged, i + 1)

\* list.sort(key=date): stable.
RECURSIVE SortByDate(_)
SortByDate(ps) ==
    IF ps = <<>> THEN <<>>
    ELSE LET rest == SortByDate(SubSeq(ps, 1, Len(ps) - 1))
             p == ps[Len(ps)]
             k == Cardinality({j \in 1..Len(rest) : rest[j].date.ymd <= p.date.ymd})
         IN  SubSeq(rest, 1, k) \o <<p>> \o SubSeq(rest, k + 1, Len(rest))

\* The test a1 != a2 left out.
LinkedAlways(a1, a2) == ~Falsy(a1) /\ ~Falsy(a2)

\* a1 and a2 and a1 != a2
Linked(a1, a2) == ~Falsy(a1) /\ ~Falsy(a2) /\ a1 # a2

RECURSIVE TransferEdges(_, _)
TransferEdges(ait, i) ==
    IF i > Len(ait) - 1 THEN <<>>
    ELSE (IF Linked(ait[i].actor, ait[i + 1].actor)
          THEN << [source |-> NodeId("actor", ait[i].actor),
                   target |-> NodeId("actor", ait[i + 1].actor),
                   label |-> "TRANSFER", date |-> ait[i + 1].date,
                   weight |-> 8 * (Micro \div 10),
                   policy |-> _policy_hits_for_date(ait[i + 1].date),
                   source_ref |-> "link:sequence"] >>
          ELSE <<>>)
         \o TransferEdges(ait, i + 1)

(***************************************************************************)
(* Inputs of the risk functions.                                           *)
(***************************************************************************)
MaxRatioSteps == 30
MaxApply == 2

\* Raw ratios in units of 10^-6: a regular grid of tenths from -0.2 on, the
\* neighbours of the regime boundaries 1.0 and 2.0, and large ratios.
RatioGrid ==
    {i * (Micro \div 10) : i \in -2..MaxRatioSteps}
    \cup {1, Micro - 1, Micro + 1, 2 * Micro - 1, 2 * Micro + 1}
    \cup {6 * Micro, 20 * Micro, 60 * Micro, 1000 * Micro, -(5 * Micro)}

RiskStrings ==
    { <<"2">>, <<" ", "1", ".", "5", " ">>, <<"8", "0", "%">>, <<"1", " ", "%">>,
      <<"-", ".", "5">>, <<>>, <<"%">>, <<"a">>, <<"1", ".", "2", ".">>,
      <<"1", " ", "2">> }

RiskInputs ==
    {FloatV(v) : v \in RatioGrid}
    \cup {IntV(n) : n \in {-1, 0, 1, 2, 3}}
    \cup {DecimalV(v) : v \in {15 * (Micro \div 10), 25 * (Micro \div 10)}}
    \cup {StrV(s) : s \in RiskStrings}
    \cup {NoneV, ObjV}

BaseFields == [object_id |-> IntV(7), title |-> StrV(<<"T">>)]

FetchedRows ==
    {DictRow(Put(BaseFields, "risk_score", x)) : x \in RiskInputs}
    \cup {DictRow(BaseFields), NotADict}

(***************************************************************************)
(* Rows the graph route fetches.                                           *)
(***************************************************************************)
MaxStored == 2
MaxSents == 2

StoredRow(type, df, place, actor, ref) ==
    [event_type |-> type, date_from |-> df, date_to |-> NoneV, place |-> place,
     actor |-> actor, source_ref |-> ref]

StoredUniverse ==
    { StoredRow("SOLD", DateV(19600501), NoneS, "John Smith", "cat:1"),
      StoredRow("PURCHASED", DateV(19701201), "Paris", "Galerie B", "cat:2"),
      StoredRow(NoneS, NoneV, NoneS, "John Smith", NoneS),
      StoredRow("SOLD", DateV(19650101), "Paris", "John Smith", "cat:4"),
      StoredRow("EXHIBITED", DateTimeV(19800310, 101500), NoneS, "", "cat:5"),
      StoredRow("ACQUIRED", DateV(19400615), "London", NoneS, "cat:6") }

SentenceUniverse ==
    << <<"Sold", "to", "John", "Smith", ",", "Paris", ",", "1965">>,
      <<"sold", "to", "John", "Smith", ",", "Paris", ",", "1965", ".">>,
      <<"Donated", "by", "the", "artist's", "estate", "by", "1980">>,
      <<"Sold", "to", "John", "Smith", ",", "by", "1980">>,
      <<"Exhibited", "in", "London", ",", "1990">>,
      <<"Painted", "in", "1920">>,
      <<"Bought", "from", "Galerie", "B", "(", "Paris", ",", "France", ")", ",",
        "London", ",", "1938">> >>

ObjectRows ==
    { [object_id |-> 7, source |-> "MET", title |-> "Vase"],
      [object_id |-> 12, source |-> NoneS, title |-> NoneS] }

NoObject == [object_id |-> 0, source |-> NoneS, title |-> NoneS]

SeqsUpTo(S, n) == UNION {[1..k -> S] : k \in 0..n}

\* ORDER BY COALESCE(date_from, '0001-01-01')
OrderKey(e) == IF e.date_from = NoneV THEN SentinelDate.ymd ELSE e.date_from.ymd
OrderedByDate(es) == \A i, j \in 1..Len(es) : i < j => OrderKey(es[i]) <= OrderKey(es[j])

\* ORDER BY seq: the sentences of an object whose seq is in picked, seq counted from 0.
SentenceRows(picked) ==
    LET all == [i \in 1..Len(SentenceUniverse) |->
                   [seq |-> i - 1, sentence |-> SentenceUniverse[i]]]
        Chosen(r) == r.seq \in picked
    IN  SelectSeq(all, Chosen)

EmptyGraph == [nodes |-> <<>>, edges |-> <<>>]


(***************************************************************************)
(* Exceptions: the type, where it was raised and in which attempt.         *)
(***************************************************************************)
NoExc == [type |-> "none"]
Exc(type, at, n) == [type |-> type, at |-> at, attempt |-> n]

\* except (OperationalError, pymysql.err.InternalError)
DbErrors == {"OperationalError", "InternalError"}

\* An exception the first except clause does not catch.
OtherErrors == {"ValueError"}

max_retries == 3

VARIABLES
    norm_prev,      \* the previous call of normalize_risk: <<argument, result>>, or <<>>
    norm_cur,       \* the latest call of normalize_risk: <<argument, result>>, or <<>>
    row,            \* the record handed to _apply_normalized_risk_inplace
    row_fetched,    \* the record as it was fetched
    row_before,     \* the record before the latest call
    napply,         \* calls of _apply_normalized_risk_inplace on the record
    leads_pc,       \* the leads route's position: "idle", then "fetched"
    pc,             \* the graph route's position
    obj,            \* the object row fetched
    events,         \* the stored events fetched
    sents,          \* the sentences fetched
    inferred,       \* infer_events_from_sentences(sents)
    merged,         \* the canonical events
    g_built,        \* the graph build_graph_from_events returned
    actors_in_time, \* the sorted (date, actor) pairs
    g,              \* the graph returned
    policy_call,    \* the latest call of _policy_hits_for_date: <<argument, result>>, or <<>>
    tl_pc,          \* the timeline route's position
    tl_events,      \* the stored events the timeline route fetched
    tl_sents,       \* the sentences the timeline route fetched
    tl_items,       \* the items build_timeline_from_events_and_sentences returned
    infer_call,     \* the latest call of _infer_from_sentence: parts, sentence and result, or <<>>
    cur_pc,         \* where one "with cursor()" stands
    attempt,        \* cursor(): the loop variable
    conn,           \* cursor(): None, an open connection or a closed one
    conns_opened,   \* the connections _create_connection has returned
    conns_open,     \* those of them not closed yet
    handed,         \* how often the with-block was entered with a cursor
    block_exc,      \* the exception the with-block raised, thrown into the generator
    raised,         \* the exceptions _create_connection and the with-block raised, in order
    surfaced        \* what the with statement raised to its caller

riskVars == <<norm_prev, norm_cur, row, row_fetched, row_before, napply, leads_pc>>
graphVars == <<pc, obj, events, sents, inferred, merged, g_built, actors_in_time, g>>

policyVars == <<policy_call>>
timelineVars == <<tl_pc, tl_events, tl_sents, tl_items>>
inferVars == <<infer_call>>
cursorVars ==
    <<cur_pc, attempt, conn, conns_opened, conns_open, handed, block_exc, raised, surfaced>>
moreVars == <<policyVars, timelineVars, inferVars, cursorVars>>

vars == <<riskVars, graphVars, moreVars>>

RiskIdle ==
    /\ norm_prev = <<>>
    /\ norm_cur = <<>>
    /\ row = NotADict
    /\ row_fetched = NotADict
    /\ row_before = NotADict
    /\ napply = 0
    /\ leads_pc = "idle"

GraphIdle ==
    /\ pc = "idle"
    /\ obj = NoObject
    /\ events = <<>>
    /\ sents = <<>>
    /\ inferred = <<>>
    /\ merged = <<>>
    /\ g_built = EmptyGraph
    /\ actors_in_time = <<>>
    /\ g = EmptyGraph

MoreIdle ==
    /\ policy_call = <<>>
    /\ tl_pc = "idle"
    /\ tl_events = <<>>
    /\ tl_sents = <<>>
    /\ tl_items = <<>>
    /\ infer_call = <<>>
    /\ cur_pc = "idle"
    /\ attempt = 0
    /\ conn = "None"
    /\ conns_opened = 0
    /\ conns_open = 0
    /\ handed = 0
    /\ block_exc = NoExc
    /\ raised = <<>>
    /\ surfaced = NoExc

(***************************************************************************)
(* normalize_risk called on two inputs, one after the other.               *)
(***************************************************************************)
Normalize ==
    /\ norm_prev = <<>>
    /\ \E a \in RiskInputs :
        /\ norm_prev' = norm_cur
        /\ norm_cur' = <<a, normalize_risk(a)>>
    /\ UNCHANGED <<row, row_fetched, row_before, napply, leads_pc, graphVars, moreVars>>

InitNormalize == RiskIdle /\ GraphIdle /\ MoreIdle

SpecNormalize == InitNormalize /\ [][Normalize]_vars

(***************************************************************************)
(* _apply_normalized_risk_inplace called on a fetched record.              *)
(***************************************************************************)
\* A row of the leads query.
FetchRow ==
    /\ leads_pc = "idle"
    /\ row' \in FetchedRows
    /\ row_fetched' = row'
    /\ row_before' = row'
    /\ leads_pc' = "fetched"
    /\ UNCHANGED <<norm_prev, norm_cur, napply, graphVars, moreVars>>

ApplyTo ==
    /\ leads_pc = "fetched"
    /\ napply < MaxApply
    /\ row_before' = row
    /\ row' = _apply_normalized_risk_inplace(row)
    /\ napply' = napply + 1
    /\ UNCHANGED <<norm_prev, norm_cur, row_fetched, leads_pc, graphVars, moreVars>>

InitApply == RiskIdle /\ GraphIdle /\ MoreIdle

NextApply == FetchRow \/ ApplyTo

SpecApply == InitApply /\ [][NextApply]_vars

(***************************************************************************)
(* The graph route, GET /api/graph/<object_id>.                            *)
(***************************************************************************)
\* The queries inside "with cursor()": no object row, or the three results.
Fetch ==
    /\ pc = "idle"
    /\ \/ /\ pc' = "not_found"
          /\ UNCHANGED <<obj, events, sents>>
       \/ /\ obj' \in ObjectRows
          /\ events' \in {es \in SeqsUpTo(StoredUniverse, MaxStored) : OrderedByDate(es)}
          /\ \E picked \in {P \in SUBSET (0..(Len(SentenceUniverse) - 1)) :
                                Cardinality(P) <= MaxSents} :
                 sents' = SentenceRows(picked)
          /\ pc' = "fetched"
    /\ UNCHANGED <<inferred, merged, g_built, actors_in_time, g, riskVars, moreVars>>

InferAll ==
    /\ pc = "fetched"
    /\ inferred' = infer_events_from_sentences(sents)
    /\ pc' = "inferred"
    /\ UNCHANGED <<obj, events, sents, merged, g_built, actors_in_time, g, riskVars, moreVars>>

MergePolicy ==
    /\ pc = "inferred"
    /\ LET after == MergeLists(events, inferred)
       IN  /\ merged' = after.merged
           /\ events' = after.events
           /\ inferred' = after.inferred
    /\ pc' = "merged"
    /\ UNCHANGED <<obj, sents, g_built, actors_in_time, g, riskVars, moreVars>>

BuildGraph ==
    /\ pc = "merged"
    /\ g_built' = build_graph_from_events(obj, merged)
    /\ g' = g_built'
    /\ pc' = "built"
    /\ UNCHANGED <<obj, events, sents, inferred, merged, actors_in_time, riskVars, moreVars>>

ChainOfCustody ==
    /\ pc = "built"
    /\ actors_in_time' = SortByDate(ActorsInTime(merged, 1))
    /\ g' = [g EXCEPT !.edges = g.edges \o TransferEdges(actors_in_time', 1)]
    /\ pc' = "done"
    /\ UNCHANGED <<obj, events, sents, inferred, merged, g_built, riskVars, moreVars>>

Init == RiskIdle /\ GraphIdle /\ MoreIdle

Next == Fetch \/ InferAll \/ MergePolicy \/ BuildGraph \/ ChainOfCustody

Spec == Init /\ [][Next]_vars

(***************************************************************************)
(* _policy_hits_for_date called on a date string, an empty string or None. *)
(***************************************************************************)
PolicyYears == {1600, 1932, 1933, 1934, 1940, 1944, 1945, 1946, 1950, 1969, 1970, 1971, 1975, 2099}
PolicyDays == {101, 102, 501, 1113, 1114, 1115, 1230, 1231}
PolicyDates ==
    {IsoStr(y * 10000 + md) : y \in PolicyYears, md \in PolicyDays}
    \cup {NoneV, EmptyStr, SentinelDate}

PolicyHits ==
    /\ \E d \in PolicyDates : policy_call' = <<d, _policy_hits_for_date(d)>>
    /\ UNCHANGED <<riskVars, graphVars, timelineVars, inferVars, cursorVars>>

InitPolicy == RiskIdle /\ GraphIdle /\ MoreIdle

SpecPolicy == InitPolicy /\ [][PolicyHits]_vars

(***************************************************************************)
(* The graph route on objects whose stored events include undated ones of  *)
(* different actors.                                                       *)
(***************************************************************************)
CustodyUniverse ==
    { StoredRow(NoneS, NoneV, NoneS, "John Smith", NoneS),
      StoredRow("PURCHASED", NoneV, "Paris", "Galerie B", "cat:2"),
      StoredRow("SOLD", DateV(19600501), NoneS, "John Smith", "cat:1"),
      StoredRow("DONATED", DateV(19751231), NoneS, "the artist's estate", "cat:7") }

FetchCustody ==
    /\ pc = "idle"
    /\ obj' \in ObjectRows
    /\ events' \in {es \in SeqsUpTo(CustodyUniverse, MaxStored) : OrderedByDate(es)}
    /\ \E picked \in {P \in SUBSET (0..(Len(SentenceUniverse) - 1)) :
                          Cardinality(P) <= MaxSents} :
           sents' = SentenceRows(picked)
    /\ pc' = "fetched"
    /\ UNCHANGED <<inferred, merged, g_built, actors_in_time, g, riskVars, moreVars>>

InitCustody == RiskIdle /\ GraphIdle /\ MoreIdle

NextCustody == FetchCustody \/ InferAll \/ MergePolicy \/ BuildGraph \/ ChainOfCustody

SpecCustody == InitCustody /\ [][NextCustody]_vars

(***************************************************************************)
(* The timeline route, GET /api/timeline/<object_id>.                      *)
(***************************************************************************)
\* Stored rows of the timeline query: those of the graph query, and rows
\* whose date_to is set.
TimelineUniverse ==
    StoredUniverse
    \cup { [StoredRow("PURCHASED", DateV(19701201), "Paris", "Galerie B", "cat:2")
               EXCEPT !.date_to = DateV(19751231)],
           [StoredRow("EXHIBITED", DateTimeV(19800310, 101500), NoneS, "", "cat:5")
               EXCEPT !.date_to = DateTimeV(19800420, 180000)] }

TimelineFetch ==
    /\ tl_pc = "idle"
    /\ tl_events' \in {es \in SeqsUpTo(TimelineUniverse, MaxStored) : OrderedByDate(es)}
    /\ \E picked \in {P \in SUBSET (0..(Len(SentenceUniverse) - 1)) :
                          Cardinality(P) <= MaxSents} :
           tl_sents' = SentenceRows(picked)
    /\ tl_pc' = "fetched"
    /\ UNCHANGED <<tl_items, riskVars, graphVars, policyVars, inferVars, cursorVars>>

TimelineBuild ==
    /\ tl_pc = "fetched"
    /\ tl_items' = build_timeline_from_events_and_sentences(tl_events, tl_sents)
    /\ tl_pc' = "done"
    /\ UNCHANGED <<tl_events, tl_sents, riskVars, graphVars, policyVars, inferVars, cursorVars>>

InitTimeline == RiskIdle /\ GraphIdle /\ MoreIdle

NextTimeline == TimelineFetch \/ TimelineBuild

SpecTimeline == InitTimeline /\ [][NextTimeline]_vars

(***************************************************************************)
(* _infer_from_sentence on the sentences of the form                       *)
(*   <verb> <to|by|from> <actor>[, <place>...][,] [by] <year>.             *)
(***************************************************************************)
FormVerbs == {"Sold", "Bought", "Donated", "gifted", "acquired"}
FormPreps == {"to", "by", "from"}
FormActors ==
    { <<"John", "Smith">>, <<"the", "artist's", "estate">>, <<"Lord", "Derby">>,
      <<"Galerie", "B", "(", "Paris", ",", "France", ")">> }
FormPlaces ==
    { <<>>, << <<"Paris">> >>, << <<"Paris">>, <<"France">> >>, << <<"Whitby">> >> }
FormYears == {"1965", "1980"}

RECURSIVE PlaceSegments(_, _)
PlaceSegments(places, i) ==
    IF i > Len(places) THEN <<>>
    ELSE <<",">> \o places[i] \o PlaceSegments(places, i + 1)

FormSentence(verb, prep, actor, places, comma, by, year) ==
    <<verb, prep>> \o actor \o PlaceSegments(places, 1)
    \o (IF comma THEN <<",">> ELSE <<>>) \o (IF by THEN <<"by">> ELSE <<>>) \o <<year>>

InferFromSentence ==
    /\ infer_call = <<>>
    /\ \E verb \in FormVerbs, prep \in FormPreps, actor \in FormActors,
          places \in FormPlaces, comma \in BOOLEAN, by \in BOOLEAN, year \in FormYears :
           LET txt == FormSentence(verb, prep, actor, places, comma, by, year)
           IN  infer_call' = [verb |-> verb, prep |-> prep, actor |-> actor,
                              places |-> places, comma |-> comma, by |-> by,
                              year |-> year, txt |-> txt,
                              result |-> _infer_from_sentence(txt)]
    /\ UNCHANGED <<riskVars, graphVars, policyVars, timelineVars, cursorVars>>

InitInfer == RiskIdle /\ GraphIdle /\ MoreIdle

SpecInfer == InitInfer /\ [][InferFromSentence]_vars

(***************************************************************************)
(* One "with cursor() as cur: <block>".  cursor() is a generator under     *)
(* contextlib.contextmanager: entering the with statement runs it to its   *)
(* yield; leaving the block normally resumes it after the yield; an        *)
(* exception of the block is thrown into it at the yield, and if it yields *)
(* again instead of ending, the with statement raises RuntimeError         *)
(* ("generator didn't stop after throw()").                                *)
(***************************************************************************)
WithCursor ==
    /\ cur_pc = "idle"
    /\ cur_pc' = "connect"
    /\ UNCHANGED <<attempt, conn, conns_opened, conns_open, handed, block_exc, raised,
                   surfaced, riskVars, graphVars, policyVars, timelineVars, inferVars>>

\* conn = _create_connection() returns; with conn.cursor() as cur: reaches the yield.
ConnectOk ==
    /\ cur_pc = "connect"
    /\ conn' = "open"
    /\ conns_opened' = conns_opened + 1
    /\ conns_open' = conns_open + 1
    /\ cur_pc' = "yield"
    /\ UNCHANGED <<attempt, handed, block_exc, raised, surfaced,
                   riskVars, graphVars, policyVars, timelineVars, inferVars>>

\* The first yield: __enter__ returns the cursor and the block starts.
YieldToBlock ==
    /\ cur_pc = "yield"
    /\ block_exc = NoExc
    /\ handed' = handed + 1
    /\ cur_pc' = "block"
    /\ UNCHANGED <<attempt, conn, conns_opened, conns_open, block_exc, raised, surfaced,
                   riskVars, graphVars, policyVars, timelineVars, inferVars>>

\* A yield reached while the block's exception is being thrown in: the with
\* statement raises RuntimeError.  The generator stays suspended at the yield,
\* its connection open, until it is finalized; a contextlib that closes the
\* generator before raising runs the finally clause at once.
YieldAfterThrow ==
    /\ cur_pc = "yield"
    /\ block_exc # NoExc
    /\ surfaced' = Exc("RuntimeError", "contextmanager", attempt)
    /\ \/ /\ cur_pc' = "suspended"
          /\ UNCHANGED <<conn, conns_open>>
       \/ /\ cur_pc' = "exited"
          /\ conn' = "closed"
          /\ conns_open' = conns_open - 1
    /\ UNCHANGED <<attempt, conns_opened, handed, block_exc, raised,
                   riskVars, graphVars, policyVars, timelineVars, inferVars>>

\* The suspended generator is finalized: GeneratorExit at the yield, finally closes conn.
GeneratorFinalized ==
    /\ cur_pc = "suspended"
    /\ conn' = "closed"
    /\ conns_open' = conns_open - 1
    /\ cur_pc' = "exited"
    /\ UNCHANGED <<attempt, conns_opened, handed, block_exc, raised, surfaced,
                   riskVars, graphVars, policyVars, timelineVars, inferVars>>

\* _create_connection() raises a database error: conn is None, nothing to
\* close; the last attempt re-raises, the others sleep and go round the loop.
ConnectDbError ==
    /\ cur_pc = "connect"
    /\ \E type \in DbErrors :
           LET e == Exc(type, "connect", attempt)
           IN  /\ raised' = Append(raised, e)
               /\ IF attempt = max_retries - 1
                  THEN /\ surfaced' = e
                       /\ cur_pc' = "exited"
                       /\ UNCHANGED attempt
                  ELSE /\ attempt' = attempt + 1
                       /\ UNCHANGED <<surfaced, cur_pc>>
    /\ UNCHANGED <<conn, conns_opened, conns_open, handed, block_exc,
                   riskVars, graphVars, policyVars, timelineVars, inferVars>>

\* _create_connection() raises another exception: except Exception re-raises it.
ConnectOtherError ==
    /\ cur_pc = "connect"
    /\ \E type \in OtherErrors :
           LET e == Exc(type, "connect", attempt)
           IN  /\ raised' = Append(raised, e)
               /\ surfaced' = e
    /\ cur_pc' = "exited"
    /\ UNCHANGED <<attempt, conn, conns_opened, conns_open, handed, block_exc,
                   riskVars, graphVars, policyVars, timelineVars, inferVars>>

\* The block ends normally: the generator resumes, breaks, and finally closes conn.
BlockReturns ==
    /\ cur_pc = "block"
    /\ conn' = "closed"
    /\ conns_open' = conns_open - 1
    /\ cur_pc' = "exited"
    /\ UNCHANGED <<attempt, conns_opened, handed, block_exc, raised, surfaced,
                   riskVars, graphVars, policyVars, timelineVars, inferVars>>

\* The block raises a database error, thrown in at the yield: the first except
\* clause closes conn and sets it to None; the last attempt re-raises the
\* error, the others sleep and go round the loop.
BlockDbError ==
    /\ cur_pc = "block"
    /\ \E type \in DbErrors :
           LET e == Exc(type, "block", attempt)
           IN  /\ raised' = Append(raised, e)
               /\ block_exc' = e
               /\ IF attempt = max_retries - 1
                  THEN /\ surfaced' = e
                       /\ cur_pc' = "exited"
                       /\ UNCHANGED attempt
                  ELSE /\ attempt' = attempt + 1
                       /\ cur_pc' = "connect"
                       /\ UNCHANGED surfaced
    /\ conn' = "None"
    /\ conns_open' = conns_open - 1
    /\ UNCHANGED <<conns_opened, handed,
                   riskVars, graphVars, policyVars, timelineVars, inferVars>>

\* The block raises another exception: except Exception closes conn and re-raises.
BlockOtherError ==
    /\ cur_pc = "block"
    /\ \E type \in OtherErrors :
           LET e == Exc(type, "block", attempt)
           IN  /\ raised' = Append(raised, e)
               /\ block_exc' = e
               /\ surfaced' = e
    /\ conn' = "closed"
    /\ conns_open' = conns_open - 1
    /\ cur_pc' = "exited"
    /\ UNCHANGED <<attempt, conns_opened, handed,
                   riskVars, graphVars, policyVars, timelineVars, inferVars>>

InitCursor == RiskIdle /\ GraphIdle /\ MoreIdle

NextCursor ==
    \/ WithCursor \/ ConnectOk \/ YieldToBlock \/ YieldAfterThrow \/ GeneratorFinalized
    \/ ConnectDbError \/ ConnectOtherError \/ BlockReturns \/ BlockDbError
    \/ BlockOtherError

SpecCursor == InitCursor /\ [][NextCursor]_vars

(***************************************************************************)
(* Properties of the risk normalisation.                                   *)
(***************************************************************************)
\* The number a risk input coerces to, in units of 10^-6.
Coerces(a) == _to_float(a) # NoneV
RatioOf(a) == _to_float(a).v

\* C1: for every input that coerces to a number, negative and very large
\* ratios included, normalize_risk returns a float v with 0 <= v <= 0.99.
C1_NormalizedInRange ==
    (norm_cur # <<>> /\ Coerces(norm_cur[1]))
        => /\ norm_cur[2].t = "float"
           /\ norm_cur[2].v >= 0
           /\ norm_cur[2].v <= 99 * (Micro \div 100)

\* A negative ratio was normalised to 0 and then a ratio of 60 or more to 0.99.
C1_Witness ==
    /\ norm_prev # <<>> /\ norm_cur # <<>>
    /\ norm_prev[1].t = "float" /\ norm_prev[1].v < 0 /\ norm_prev[2] = FloatV(0)
    /\ norm_cur[1].t = "float" /\ norm_cur[1].v >= 60 * Micro
    /\ norm_cur[2] = FloatV(99 * (Micro \div 100))

\* C2: normalize_risk is non-decreasing: for two raw ratios r1 < r2, in the
\* same regime or not, normalize(r1) <= normalize(r2).
C2_Monotone ==
    (/\ norm_prev # <<>> /\ norm_cur # <<>>
     /\ Coerces(norm_prev[1]) /\ Coerces(norm_cur[1])
     /\ RatioOf(norm_prev[1]) < RatioOf(norm_cur[1]))
        => norm_prev[2].v <= norm_cur[2].v

\* A ratio just above 2.0 follows the ratio 2.0 (two regimes) and scores more.
C2_Witness ==
    /\ norm_prev # <<>> /\ norm_cur # <<>>
    /\ norm_prev[1] = FloatV(2 * Micro)
    /\ norm_cur[1] = FloatV(21 * (Micro \div 10))
    /\ norm_prev[2].v < norm_cur[2].v

(***************************************************************************)
(* Properties of _apply_normalized_risk_inplace.                           *)
(***************************************************************************)
RiskFields == {"risk_score_raw", "risk_score_norm_0_99", "risk_score", "risk_score_normalized"}

\* The risk inputs that are null or that no number can be read from.
NonNumeric ==
    {NoneV, ObjV}
    \cup {StrV(s) : s \in { <<>>, <<"%">>, <<"a">>, <<"1", ".", "2", ".">>, <<"1", " ", "2">> }}

\* C3: on a dict whose risk_score coerces to r, one call leaves risk_score_raw = r,
\* risk_score = risk_score_normalized = normalize(r), risk_score_norm_0_99 =
\* normalize(r) x 100 rounded to 2 decimals, and every other field unchanged.
C3_ApplyWrites ==
    (/\ napply >= 1
     /\ row_before.isdict
     /\ Get(row_before.d, "risk_score") \notin NonNumeric
     /\ "risk_score" \in DOMAIN row_before.d)
        => LET r == FloatV(RatioOf(row_before.d["risk_score"]))
               n == normalize_risk(r)
           IN  /\ row.isdict
               /\ DOMAIN row.d = DOMAIN row_before.d \cup RiskFields
               /\ row.d["risk_score_raw"] = r
               /\ row.d["risk_score"] = n
               /\ row.d["risk_score_normalized"] = n
               \* n x 100 in hundredths, as units of 10^-6
               /\ row.d["risk_score_norm_0_99"] = FloatV(RoundHalfEven(n.v, 100) * 10^4)
               /\ \A f \in DOMAIN row_before.d \ RiskFields : row.d[f] = row_before.d[f]

\* The string " 1.5 " was read as 1.5 and the record rewritten by one call.
C3_Witness ==
    /\ napply = 1
    /\ row_before.isdict
    /\ Get(row_before.d, "risk_score") = StrV(<<" ", "1", ".", "5", " ">>)
    /\ row.d["risk_score_raw"] = FloatV(15 * (Micro \div 10))
    /\ row.d["risk_score"].v > 55 * (Micro \div 100)
    /\ row.d["object_id"] = IntV(7)

\* C4: on a record whose risk_score is missing, null or not coercible, and on a
\* value that is no dict, a call leaves the record exactly as it was.
C4_ApplyLeavesUntouched ==
    (/\ napply >= 1
     /\ \/ ~row_before.isdict
        \/ "risk_score" \notin DOMAIN row_before.d
        \/ row_before.d["risk_score"] \in NonNumeric)
        => row = row_before

\* A record with a non-numeric string and no added field after two calls.
C4_Witness ==
    /\ napply = 2
    /\ row.isdict
    /\ Get(row.d, "risk_score") = StrV(<<"a">>)
    /\ DOMAIN row.d = {"object_id", "title", "risk_score"}

\* C16: the curve has no jump at the regime boundaries: normalize_risk gives
\* 0.55 for 1.0 and 0.80 for 2.0, at 100 percent the formulas of the first and
\* of the second regime both give 55, and at 200 percent those of the second
\* and of the third both give 80.
C16_NoJump ==
    /\ (norm_cur # <<>> /\ Coerces(norm_cur[1]) /\ RatioOf(norm_cur[1]) = Micro)
           => norm_cur[2] = FloatV(55 * (Micro \div 100))
    /\ (norm_cur # <<>> /\ Coerces(norm_cur[1]) /\ RatioOf(norm_cur[1]) = 2 * Micro)
           => norm_cur[2] = FloatV(80 * (Micro \div 100))
    /\ RegimeLow(Pct(100)) = 55 * Micro
    /\ RegimeMid(Pct(100)) = 55 * Micro
    /\ RegimeMid(Pct(200)) = 80 * Micro
    /\ RegimeHigh(Pct(200)) = 80 * Micro

\* normalize_risk called on 1.0 and then on 2.0.
C16_Witness ==
    /\ norm_prev = <<FloatV(Micro), FloatV(55 * (Micro \div 100))>>
    /\ norm_cur = <<FloatV(2 * Micro), FloatV(80 * (Micro \div 100))>>

(***************************************************************************)
(* Properties of the graph route.                                          *)
(***************************************************************************)
Inferred == pc \in {"inferred", "merged", "built", "done"}
Merged == pc \in {"merged", "built", "done"}
Built == pc \in {"built", "done"}

HasActor(e) == ~Falsy(GetS(e, "actor"))
HasPlace(e) == ~Falsy(GetS(e, "place"))

\* (actor, place, event_type, ISO date_from)
IsoTuple(e) ==
    <<GetS(e, "actor"), GetS(e, "place"), GetS(e, "event_type"), to_iso(GetD(e, "date_from"))>>

\* C5: if no event is stored, or every stored event lacks both actor and place,
\* the canonical events are exactly the inferred ones; otherwise they are the
\* stored events in their order, followed by the inferred events, in inferred
\* order, whose (actor, place, event_type, ISO date_from) equals that of no
\* stored event.
C5_MergePolicy ==
    Merged =>
        IF events = <<>>
           \/ \A i \in 1..Len(events) : ~HasActor(events[i]) /\ ~HasPlace(events[i])
        THEN merged = inferred
        ELSE LET Fresh(e) == \A i \in 1..Len(events) : IsoTuple(events[i]) # IsoTuple(e)
             IN  merged = events \o SelectSeq(inferred, Fresh)

\* Stored events with an actor, one inferred event dropped as a duplicate of a
\* stored one and one inferred event appended.
C5_Witness ==
    /\ pc = "merged"
    /\ \E i \in 1..Len(events) : HasActor(events[i])
    /\ Len(inferred) = 2
    /\ Len(merged) = Len(events) + 1
    /\ merged[Len(merged)] = inferred[2]

\* The candidate of each sentence and the sentences whose candidate is kept.
Cands == [k \in 1..Len(sents) |-> _infer_from_sentence(sents[k].sentence)]
KeptOf(cands) ==
    {k \in DOMAIN cands :
        cands[k] # NoEvent /\ (~Falsy(cands[k].actor) \/ ~Falsy(cands[k].place))}
RawTuple(e) == <<e.actor, e.place, e.event_type, e.date_from>>

\* C6: the inferred events hold no two events of the same (actor, place,
\* event_type, date_from); of the candidates sharing a tuple the one of the
\* earliest sentence is kept; the events are in the order of their sentences.
C6_InferDedupe ==
    Inferred =>
        LET cands == Cands
            Kept == KeptOf(cands)
        IN  /\ \A i, j \in 1..Len(inferred) :
                   i < j => /\ RawTuple(inferred[i]) # RawTuple(inferred[j])
                            /\ inferred[i].seq < inferred[j].seq
            /\ \A k \in Kept :
                   \E i \in 1..Len(inferred) :
                       /\ RawTuple(inferred[i]) = RawTuple(cands[k])
                       /\ inferred[i].seq
                            = sents[Least({m \in Kept :
                                             RawTuple(cands[m]) = RawTuple(cands[k])})].seq
            /\ Len(inferred) = Cardinality({RawTuple(cands[k]) : k \in Kept})

\* Two different sentences gave the same tuple and the first one's event is kept.
C6_Witness ==
    /\ pc = "inferred"
    /\ KeptOf(Cands) = {1, 2}
    /\ sents[1].sentence # sents[2].sentence
    /\ Len(inferred) = 1
    /\ inferred[1].seq = sents[1].seq

\* C7: every inferred event has an actor or a place, source_ref
\* "inferred:sentence", no method and no date_to, and is the candidate of the
\* sentence whose seq it carries; a candidate with neither actor nor place,
\* and a sentence with no verb, give no event.
C7_InferredEvents ==
    Inferred =>
        LET cands == Cands
            Kept == KeptOf(cands)
        IN  /\ \A i \in 1..Len(inferred) :
                   LET e == inferred[i]
                   IN  /\ ~Falsy(e.actor) \/ ~Falsy(e.place)
                       /\ e.source_ref = "inferred:sentence"
                       /\ e.method = NoneS
                       /\ e.date_to = NoneV
                       /\ \E k \in 1..Len(sents) :
                              /\ sents[k].seq = e.seq
                              /\ cands[k] # NoEvent
                              /\ DOMAIN e = DOMAIN cands[k] \cup {"seq"}
                              /\ \A f \in DOMAIN cands[k] : e[f] = cands[k][f]
            /\ \A k \in 1..Len(sents) :
                   (\A v \in 1..Len(EVENT_VERBS) :
                        ~VerbInText(EVENT_VERBS[v][1], sents[k].sentence))
                       => cands[k] = NoEvent
            /\ \A k \in (1..Len(sents)) \ Kept :
                   \A i \in 1..Len(inferred) : inferred[i].seq # sents[k].seq

\* A sentence with a verb and a year only is followed by one that gives an event.
C7_Witness ==
    /\ pc = "inferred"
    /\ Len(sents) = 2
    /\ Cands[1] # NoEvent /\ Cands[1].date_from # NoneV /\ 1 \notin KeptOf(Cands)
    /\ Len(inferred) = 1
    /\ inferred[1].seq = sents[2].seq

\* The edges the chain-of-custody step appended.
Transfers == SubSeq(g.edges, Len(g_built.edges) + 1, Len(g.edges))
CustodyDate(e) ==
    IF to_iso(GetD(e, "date_from")) = NoneV THEN IsoStr(10101) ELSE to_iso(GetD(e, "date_from"))
Occurrences(sq, x) == Cardinality({i \in 1..Len(sq) : sq[i] = x})

\* C8: the (date, actor) pairs of the canonical events with an actor are ordered
\* by date; each consecutive pair of different actors gives exactly one TRANSFER
\* edge from the earlier to the later actor (weight 0.8, "link:sequence"), a
\* pair of equal actors gives none, so no TRANSFER edge is a self-loop; A, B, A
\* give exactly A->B and B->A.
C8_ChainOfCustody ==
    pc = "done" =>
        LET ait == actors_in_time
            n == Len(ait)
            pairs == [i \in 1..Len(merged) |->
                         [date |-> CustodyDate(merged[i]), actor |-> GetS(merged[i], "actor")]]
            Diff == {i \in 1..(n - 1) : ait[i].actor # ait[i + 1].actor}
            Rank(i) == Cardinality({j \in Diff : j <= i})
        IN  /\ \A i \in 1..Len(merged) :
                   HasActor(merged[i]) => Occurrences(ait, pairs[i]) = Occurrences(pairs, pairs[i])
            /\ n = Cardinality({i \in 1..Len(merged) : HasActor(merged[i])})
            /\ \A i, j \in 1..n : i < j => ait[i].date.ymd <= ait[j].date.ymd
            /\ Len(Transfers) = Cardinality(Diff)
            /\ \A i \in Diff :
                   LET t == Transfers[Rank(i)]
                   IN  /\ t.source = "actor:" \o ait[i].actor
                       /\ t.target = "actor:" \o ait[i + 1].actor
                       /\ t.label = "TRANSFER"
                       /\ t.weight = 8 * (Micro \div 10)
                       /\ t.source_ref = "link:sequence"
            /\ \A k \in 1..Len(Transfers) : Transfers[k].source # Transfers[k].target
            /\ (n = 3 /\ ait[1].actor = ait[3].actor /\ ait[1].actor # ait[2].actor)
                   => [k \in 1..Len(Transfers) |-> <<Transfers[k].source, Transfers[k].target>>]
                        = << <<"actor:" \o ait[1].actor, "actor:" \o ait[2].actor>>,
                             <<"actor:" \o ait[2].actor, "actor:" \o ait[1].actor>> >>

\* John Smith (1960), Galerie B (1970), John Smith (1980): two TRANSFER edges.
C8_Witness ==
    /\ pc = "done"
    /\ [i \in 1..Len(actors_in_time) |-> actors_in_time[i].actor]
         = <<"John Smith", "Galerie B", "John Smith">>
    /\ [i \in 1..Len(actors_in_time) |-> actors_in_time[i].date.ymd \div 10000]
         = <<1960, 1970, 1980>>
    /\ Len(Transfers) = 2

\* C9: build_graph_from_events emits, in event order, one actor->object edge per
\* event with an actor (label the event type or "UNKNOWN", weight 1.0, the
\* event's date, source_ref and policy codes) and one object->place edge
\* "LOCATED" (weight 0.5) per event with a place, and no other edge.
C9_GraphEdges ==
    Built =>
        LET E == g_built.edges
            oid == "obj:" \o ToString(obj.object_id)
            As == {i \in 1..Len(merged) : HasActor(merged[i])}
            Ps == {i \in 1..Len(merged) : HasPlace(merged[i])}
            Before(i) == Cardinality({j \in As : j < i}) + Cardinality({j \in Ps : j < i})
            Iso(i) == to_iso(GetD(merged[i], "date_from"))
        IN  /\ Len(E) = Cardinality(As) + Cardinality(Ps)
            /\ \A i \in As :
                   E[Before(i) + 1]
                     = [source |-> "actor:" \o merged[i].actor, target |-> oid,
                        label |-> IF Falsy(GetS(merged[i], "event_type")) THEN "UNKNOWN"
                                  ELSE merged[i].event_type,
                        date |-> Iso(i), weight |-> Micro,
                        source_ref |-> GetS(merged[i], "source_ref"),
                        policy |-> _policy_hits_for_date(Iso(i))]
            /\ \A i \in Ps :
                   E[Before(i) + (IF i \in As THEN 2 ELSE 1)]
                     = [source |-> oid, target |-> "place:" \o merged[i].place,
                        label |-> "LOCATED", date |-> Iso(i), weight |-> Micro \div 2,
                        source_ref |-> GetS(merged[i], "source_ref"),
                        policy |-> _policy_hits_for_date(Iso(i))]

\* An event with an actor and no place and one with a place and no actor: two edges.
C9_Witness ==
    /\ pc = "built"
    /\ Len(merged) = 2
    /\ HasActor(merged[1]) /\ ~HasPlace(merged[1])
    /\ ~HasActor(merged[2]) /\ HasPlace(merged[2])
    /\ Len(g_built.edges) = 2
    /\ g_built.edges[2].label = "LOCATED"

\* C10: the node ids of a built graph are pairwise distinct: one object node
\* "obj:{object_id}", also for no event, and one node per distinct actor label
\* and per distinct place label.
C10_NodeIds ==
    Built =>
        LET N == g_built.nodes
            ActorLabels == {merged[i].actor : i \in {j \in 1..Len(merged) : HasActor(merged[j])}}
            PlaceLabels == {merged[i].place : i \in {j \in 1..Len(merged) : HasPlace(merged[j])}}
            Count(kind, label) ==
                Cardinality({i \in 1..Len(N) : N[i].type = kind /\ N[i].label = label})
        IN  /\ \A i, j \in 1..Len(N) : i < j => N[i].id # N[j].id
            /\ Cardinality({i \in 1..Len(N) : N[i].type = "object"}) = 1
            /\ \E i \in 1..Len(N) :
                   N[i].type = "object" /\ N[i].id = "obj:" \o ToString(obj.object_id)
            /\ \A a \in ActorLabels : Count("actor", a) = 1
            /\ \A q \in PlaceLabels : Count("place", q) = 1
            /\ Len(N) = 1 + Cardinality(ActorLabels) + Cardinality(PlaceLabels)

\* Three events, two of one actor and two of one place: four nodes.
C10_Witness ==
    /\ pc = "built"
    /\ Len(merged) = 3
    /\ \E i, j \in 1..3 : i < j /\ HasActor(merged[i]) /\ GetS(merged[j], "actor") = merged[i].actor
    /\ \E i, j \in 1..3 : i < j /\ HasPlace(merged[i]) /\ GetS(merged[j], "place") = merged[i].place
    /\ Len(g_built.nodes) = 4

(***************************************************************************)
(* Properties of _policy_hits_for_date.                                    *)
(***************************************************************************)
CodesOf(hits) == {hits[k] : k \in 1..Len(hits)}

\* C11: an absent date matches no code; an ISO date d matches exactly the codes
\* of the windows with from <= d and (to unset or d <= to), bounds inclusive; a
\* date in 1933-01-01..1945-12-31 matches NAZI_ERA only, a date from 1970-11-14
\* on matches UNESCO_1970 only, any other date matches neither, none both.
C11_PolicyWindows ==
    policy_call # <<>> =>
        LET d == policy_call[1]
            hits == policy_call[2]
        IN  IF d \in {NoneV, EmptyStr} THEN hits = <<>>
            ELSE /\ \A i \in 1..Len(POLICY_WINDOWS) :
                        (POLICY_WINDOWS[i].code \in CodesOf(hits))
                            <=> /\ POLICY_WINDOWS[i].from.ymd <= d.ymd
                                /\ (POLICY_WINDOWS[i].to = NoneV
                                    \/ d.ymd <= POLICY_WINDOWS[i].to.ymd)
                 /\ CodesOf(hits) \subseteq {POLICY_WINDOWS[i].code : i \in 1..Len(POLICY_WINDOWS)}
                 /\ Len(hits) = Cardinality(CodesOf(hits))
                 /\ (19330101 <= d.ymd /\ d.ymd <= 19451231) => hits = <<"NAZI_ERA">>
                 /\ (19701114 <= d.ymd) => hits = <<"UNESCO_1970">>
                 /\ (d.ymd < 19330101 \/ (19451231 < d.ymd /\ d.ymd < 19701114)) => hits = <<>>
                 /\ Len(hits) <= 1

\* The last day of the first window matches NAZI_ERA.
C11_Witness ==
    /\ policy_call # <<>>
    /\ policy_call[1] = IsoStr(19451231)
    /\ policy_call[2] = <<"NAZI_ERA">>

\* C19: after one or more calls on the same record, risk_score_raw is the raw
\* ratio the record held in risk_score before the first call, and risk_score
\* is normalize of that ratio.
C19_RawPreserved ==
    (/\ napply >= 1
     /\ row_fetched.isdict
     /\ Coerces(Get(row_fetched.d, "risk_score")))
        => LET r == FloatV(RatioOf(row_fetched.d["risk_score"]))
           IN  /\ row.d["risk_score_raw"] = r
               /\ row.d["risk_score"] = normalize_risk(r)

(***************************************************************************)
(* Properties of the timeline route.                                       *)
(***************************************************************************)
\* C12: the timeline has one item per event, in the events' order (none for no
\* event); item i has the title of event i's type, or "Event", the date-only
\* start and end of event i, and its source_ref; every item's text is the
\* sentence of the lowest seq among 0, 1, 2, 3 the object has, or empty.
C12_TimelineItems ==
    tl_pc = "done" =>
        LET low == {i \in 1..Len(tl_sents) : tl_sents[i].seq \in {0, 1, 2, 3}}
            first == CHOOSE i \in low : \A j \in low : tl_sents[i].seq <= tl_sents[j].seq
        IN  /\ Len(tl_items) = Len(tl_events)
            /\ \A i \in 1..Len(tl_events) :
                   LET ev == tl_events[i]
                       it == tl_items[i]
                   IN  /\ DOMAIN it = {"title", "start_date", "end_date", "text", "source_ref"}
                       /\ it.title = (IF ev.event_type \in {NoneS, ""} THEN "Event"
                                      ELSE ev.event_type)
                       /\ it.start_date = (IF ev.date_from = NoneV THEN NoneV
                                           ELSE IsoStr(ev.date_from.ymd))
                       /\ it.end_date = (IF ev.date_to = NoneV THEN NoneV
                                         ELSE IsoStr(ev.date_to.ymd))
                       /\ it.source_ref = ev.source_ref
                       /\ it.text = (IF low = {} THEN "" ELSE Text(tl_sents[first].sentence))

\* Two events, one with a datetime date_to, and sentences of seq 3 and 5: both
\* items carry the sentence of seq 3.
C12_Witness ==
    /\ tl_pc = "done"
    /\ Len(tl_items) = 2
    /\ tl_events[2].date_to = DateTimeV(19800420, 180000)
    /\ tl_items[2].end_date = IsoStr(19800420)
    /\ [i \in 1..Len(tl_sents) |-> tl_sents[i].seq] = <<3, 5>>
    /\ tl_items[1].text = Text(SentenceUniverse[4])
    /\ tl_items[1].text # ""

\* C13: the timeline is built from the canonical event set, the one the merge
\* of the stored and the inferred events gives and the graph is built from; an
\* object with no stored event and an inferable sentence has timeline items.
C13_TimelineFromCanonical ==
    tl_pc = "done" =>
        /\ tl_items = build_timeline_from_events_and_sentences(
                          MergeEvents(tl_events, infer_events_from_sentences(tl_sents)),
                          tl_sents)
        /\ (tl_events = <<>> /\ infer_events_from_sentences(tl_sents) # <<>>
               => tl_items # <<>>)

(***************************************************************************)
(* Further properties of the graph route.                                  *)
(***************************************************************************)
Thin(e) == ~HasActor(e) /\ ~HasPlace(e)

\* C14 as stated: the canonical event list the graph is built from holds no
\* event that lacks both actor and place.
C14_NoThinEvent ==
    Merged => \A i \in 1..Len(merged) : ~Thin(merged[i])

\* C14, amended: an event of the canonical list that lacks both actor and
\* place is a stored event, kept at its place next to a stored event that has
\* an actor or a place; no inferred event of the list lacks both, and when
\* every stored event lacks both the list holds none of them.
C14_ThinOnlyStored ==
    Merged =>
        \A i \in 1..Len(merged) :
            Thin(merged[i]) =>
                /\ i <= Len(events)
                /\ merged[i] = events[i]
                /\ \E j \in 1..Len(events) : ~Thin(events[j])

\* A stored event with an empty actor and no place stays in the canonical list
\* after a stored event that has an actor, and the graph is built.
C14_Witness ==
    /\ pc = "done"
    /\ Len(events) = 2
    /\ HasActor(events[1])
    /\ Thin(events[2])
    /\ Len(merged) >= 2
    /\ merged[2] = events[2]

C18_TransferDate ==
    pc = "done" =>
        /\ \A k \in 1..Len(Transfers) :
               \E n \in 1..Len(g_built.edges) :
                   /\ g_built.edges[n].source = Transfers[k].target
                   /\ g_built.edges[n].target = ObjectNode(obj).id
                   /\ g_built.edges[n].date = Transfers[k].date
                   /\ g_built.edges[n].policy = Transfers[k].policy
        /\ \A i, j \in 1..Len(actors_in_time) :
               (i < j /\ actors_in_time[j].date = SentinelDate)
                   => actors_in_time[i].date = SentinelDate

\* C21: in the graph the route returns, after the chain-of-custody step, the
\* source and the target of every edge (actor -> object, object -> place,
\* actor -> actor TRANSFER) are ids of nodes of the graph's node list, whether
\* the events are the inferred ones or the stored ones filled with inferred.
C21_EdgeEndpointsExist ==
    pc = "done" =>
        LET ids == {g.nodes[i].id : i \in 1..Len(g.nodes)}
        IN  \A k \in 1..Len(g.edges) :
                g.edges[k].source \in ids /\ g.edges[k].target \in ids

\* No stored event: the graph of the inferred events has an actor -> object
\* edge, a LOCATED edge and a TRANSFER edge.
C21_Witness ==
    /\ pc = "done"
    /\ events = <<>>
    /\ merged = inferred
    /\ Len(Transfers) >= 1
    /\ \E k \in 1..Len(g.edges) : g.edges[k].label = "LOCATED"
    /\ \E k \in 1..Len(g.edges) :
           g.edges[k].target = ObjectNode(obj).id /\ g.edges[k].label = "SOLD"

(***************************************************************************)
(* Properties of _infer_from_sentence.                                     *)
(***************************************************************************)
VerbType ==
    [Sold |-> "SOLD", Bought |-> "PURCHASED", Donated |-> "DONATED",
     gifted |-> "DONATED", acquired |-> "ACQUIRED"]

\* The segments joined with ", ".
RECURSIVE JoinedPlaces(_, _)
JoinedPlaces(places, i) ==
    IF i > Len(places) THEN ""
    ELSE (IF i > 1 THEN ", " ELSE "") \o Text(places[i]) \o JoinedPlaces(places, i + 1)

\* C15: on "<verb> <to|by|from> <actor>[, <place>...][,] [by] <year>" the
\* result has the type the verb maps to, the actor as written between the
\* preposition and the first top-level comma, the remaining segments joined as
\* the place (none when there is no segment) and date_from "<year>-01-01".
C15_InferPattern ==
    infer_call # <<>> =>
        LET c == infer_call
            ev == c.result
        IN  /\ ev # NoEvent
            /\ ev.event_type = VerbType[c.verb]
            /\ ev.actor = Text(c.actor)
            /\ ev.place = (IF c.places = <<>> THEN NoneS ELSE JoinedPlaces(c.places, 1))
            /\ ev.date_from = IsoStr(NumberOf[c.year] * 10000 + 101)

(***************************************************************************)
(* Properties of cursor().                                                 *)
(***************************************************************************)
\* The with statement is over: it returned or raised to its caller.
Left == cur_pc \in {"suspended", "exited"}

\* C20: one "with cursor()" opens at most 3 connections, enters the block with
\* a cursor at most once, has no connection open when it starts another
\* attempt or when it is left, and raises nothing but an exception that
\* _create_connection or the block raised: after a database error it goes
\* round the loop again or, in the 3rd attempt, raises that database error.
C20_CursorRetry ==
    /\ conns_opened <= max_retries
    /\ handed <= 1
    /\ cur_pc = "connect" => conns_open = 0
    /\ Left => conns_open = 0
    /\ Left =>
        \/ surfaced = NoExc /\ (raised = <<>> \/ raised[Len(raised)].type \in DbErrors)
        \/ /\ raised # <<>>
           /\ surfaced = raised[Len(raised)]
           /\ surfaced.type \in DbErrors => surfaced.attempt = max_retries - 1
====
